---- MODULE Spec2Model ----
(***************************************************************************)
(* vetkd-devkit: the KeyManager (access-controlled key derivation) of      *)
(* backend/rs/ic_vetkeys/src/key_manager/mod.rs, the AccessRights of       *)
(* backend/ic_vetkeys/src/types.rs and the EncryptedMaps value store that  *)
(* cdk/encrypted_maps/tests/tests.rs exercises on top of it.               *)
(*                                                                         *)
(* A canister executes one message at a time: every synchronous entry      *)
(* point is one atomic action.  The two calls to the vetKD system API are  *)
(* the only suspension points: the request is issued in one action and the *)
(* reply or reject is handled in a later one.                              *)
(*                                                                         *)
(* The singleton KeyManager of cdk/key_manager/src/lib.rs is modelled next *)
(* to it (KEY_MANAGER and the cdk_ operators): the same tables behind a    *)
(* thread-local Option that try_init sets.                                 *)
(***************************************************************************)
EXTENDS Integers, Sequences, FiniteSets, TLC

\* ------------------------------------------------------------- bounds
\* a principal or key name written out in bytes has at most MaxBytes bytes
MaxBytes == 2
\* principals are 0 .. NumPrincipals-1; 0 is Principal::management_canister()
NumPrincipals == 3
\* at most MaxGrants entries of access_control are in use at a time
MaxGrants == 2
\* at most MaxValues entries of the value store are in use at a time
MaxValues == 1
\* at most MaxStored of them in the specification of the value store alone
MaxStored == 2
\* at most MaxCalls calls to the vetKD system API are in flight at a time
MaxCalls == 1

Principals == 0 .. (NumPrincipals - 1)
\* key names (Blob<32>), in their byte order; 0 is Blob::default()
KeyNames == {0}
KeyIds == Principals \X KeyNames
\* two key names, for the key ids of one owner side by side
AllKeyNames == {0, 1}
AllKeyIds == Principals \X AllKeyNames
\* map keys (Blob<32>) in their byte order; the whole-broker specifications
\* write the first one only
MapKeysInOrder == <<"k1", "k2">>
AllMapKeys == {MapKeysInOrder[i] : i \in DOMAIN MapKeysInOrder}
MapKeys == {"k1"}
Values == {"v1", "v2"}
TransportKeys == {"tk1"}
DomainSeparators == {"ds1"}
ReplyBlobs == {"blob1"}

\* ------------------------------------------------------------- types.rs
Read == "Read"
ReadWrite == "ReadWrite"
ReadWriteManage == "ReadWriteManage"
AccessRights == {Read, ReadWrite, ReadWriteManage}
\* the discriminant of a level; the derived Ord compares discriminants
AccessRightsRepr(r) == CASE r = Read -> 0 [] r = ReadWrite -> 1 [] r = ReadWriteManage -> 2
AccessRightsLeq(a, b) == AccessRightsRepr(a) <= AccessRightsRepr(b)

\* Option::None of a map lookup, of insert and of remove
None == "None"

\* mutant: Read alone does not give read access
can_read_needs_write(r) == r \in {ReadWrite, ReadWriteManage}
can_read(r) == r \in {Read, ReadWrite, ReadWriteManage}
\* mutant: only the right to manage gives write access
can_write_manage_only(r) == r \in {ReadWriteManage}
\* mutant: the right to manage takes the right to write away
can_write_read_write_only(r) == r \in {ReadWrite}
\* mutant: read access is taken for the right to write
can_write_for_readers(r) == r \in {Read, ReadWrite, ReadWriteManage}
can_write(r) == r \in {ReadWrite, ReadWriteManage}
can_get_user_rights(r) == r \in {ReadWriteManage}
\* mutant: write access is taken for the right to manage
can_set_user_rights_rw(r) == r \in {ReadWrite, ReadWriteManage}
can_set_user_rights(r) == r \in {ReadWriteManage}
owner_rights == ReadWriteManage

\* Result<T, String>; Panic is an aborted execution (expect / unwrap)
Ok(v) == [tag |-> "Ok", val |-> v]
Err(e) == [tag |-> "Err", val |-> e]
Panic(m) == [tag |-> "Panic", val |-> m]
\* the output of a future that is no Result
Value(v) == [tag |-> "Value", val |-> v]

\* ------------------------------------------------------------- state
VARIABLES
    domain_separator,   \* KeyManager.domain_separator
    access_control,     \* KeyManager.access_control: (user, key_id) -> rights
    shared_keys,        \* KeyManager.shared_keys: set of (key_id, user)
    mapkey_vals,        \* EncryptedMaps: (map_id, map_key) -> value
    calls,              \* the calls to the vetKD system API, by slot
    KEY_MANAGER,        \* cdk: the thread-local Option<KeyManager>
    derivation_inputs   \* two key ids and the vetKD inputs built from them

vars == <<domain_separator, access_control, shared_keys, mapkey_vals, calls,
          KEY_MANAGER, derivation_inputs>>

\* a slot holds no call, a call awaiting its response, or a resolved future
NoRequest == [method |-> "none"]
Idle == [status |-> "idle", caller |-> None, key_id |-> None,
         request |-> NoRequest, response |-> None, output |-> None]
CallSlots == 1 .. MaxCalls

AcKey(user, key_id) == <<user, key_id>>
SkKey(key_id, user) == <<key_id, user>>
Grants == {k \in DOMAIN access_control : access_control[k] # None}
StoredValues == {k \in DOMAIN mapkey_vals : mapkey_vals[k] # None}

\* cdk: KEY_MANAGER is None until try_init, then Some(KeyManager)
NoKeyManager == [is_some |-> FALSE]
Some(km) == [is_some |-> TRUE, access_control |-> km.access_control,
             shared_keys |-> km.shared_keys]

\* the KeyManager and the EncryptedMaps after init: empty maps, nothing in flight
InitTables ==
    /\ domain_separator \in DomainSeparators
    /\ access_control = [k \in Principals \X KeyIds |-> None]
    /\ shared_keys = {}
    /\ mapkey_vals = [k \in KeyIds \X AllMapKeys |-> None]
    /\ calls = [s \in CallSlots |-> Idle]

Init ==
    /\ InitTables
    /\ KEY_MANAGER = NoKeyManager
    /\ derivation_inputs = None

\* ------------------------------------------------------------- 4.1 checks
\* mutant: the owner is looked up in the table like any other user
ensure_user_can_read_no_owner(user, key_id) ==
    LET has_shared_access == access_control[AcKey(user, key_id)] IN
    IF has_shared_access # None /\ can_read(has_shared_access)
    THEN Ok(has_shared_access)
    ELSE Err("unauthorized")

ensure_user_can_read(user, key_id) ==
    IF user = key_id[1] THEN Ok(owner_rights)
    ELSE LET has_shared_access == access_control[AcKey(user, key_id)] IN
         IF has_shared_access # None /\ can_read(has_shared_access)
         THEN Ok(has_shared_access)
         ELSE Err("unauthorized")

ensure_user_can_write(user, key_id) ==
    IF user = key_id[1] THEN Ok(owner_rights)
    ELSE LET has_shared_access == access_control[AcKey(user, key_id)] IN
         IF has_shared_access # None /\ can_write(has_shared_access)
         THEN Ok(has_shared_access)
         ELSE Err("unauthorized")

ensure_user_can_get_user_rights(user, key_id) ==
    IF user = key_id[1] THEN Ok(owner_rights)
    ELSE LET has_shared_access == access_control[AcKey(user, key_id)] IN
         IF has_shared_access # None /\ can_get_user_rights(has_shared_access)
         THEN Ok(has_shared_access)
         ELSE Err("unauthorized")

ensure_user_can_set_user_rights(user, key_id) ==
    IF user = key_id[1] THEN Ok(owner_rights)
    ELSE LET has_shared_access == access_control[AcKey(user, key_id)] IN
         IF has_shared_access # None /\ can_set_user_rights(has_shared_access)
         THEN Ok(has_shared_access)
         ELSE Err("unauthorized")

\* ------------------------------------------------------------- 4.2 grant / revoke
\* mutant: the owner's own rights are not guarded
set_user_rights_no_owner_check(caller, key_id, user, access_rights) ==
    LET chk == ensure_user_can_set_user_rights(caller, key_id) IN
    IF chk.tag # "Ok"
    THEN [res |-> chk, ac |-> access_control, sk |-> shared_keys]
    ELSE [res |-> Ok(access_control[AcKey(user, key_id)]),
          ac |-> [access_control EXCEPT ![AcKey(user, key_id)] = access_rights],
          sk |-> shared_keys \cup {SkKey(key_id, user)}]

\* mutant: shared_keys is written before the owner guard
set_user_rights_index_first(caller, key_id, user, access_rights) ==
    LET chk == ensure_user_can_set_user_rights(caller, key_id) IN
    IF chk.tag # "Ok"
    THEN [res |-> chk, ac |-> access_control, sk |-> shared_keys]
    ELSE IF caller = key_id[1] /\ caller = user
    THEN [res |-> Err("cannot change key owner's user rights"),
          ac |-> access_control, sk |-> shared_keys \cup {SkKey(key_id, user)}]
    ELSE [res |-> Ok(access_control[AcKey(user, key_id)]),
          ac |-> [access_control EXCEPT ![AcKey(user, key_id)] = access_rights],
          sk |-> shared_keys \cup {SkKey(key_id, user)}]

\* mutant: the rights just stored are returned, not the previous ones
set_user_rights_returns_new(caller, key_id, user, access_rights) ==
    LET chk == ensure_user_can_set_user_rights(caller, key_id) IN
    IF chk.tag # "Ok"
    THEN [res |-> chk, ac |-> access_control, sk |-> shared_keys]
    ELSE IF caller = key_id[1] /\ caller = user
    THEN [res |-> Err("cannot change key owner's user rights"),
          ac |-> access_control, sk |-> shared_keys]
    ELSE [res |-> Ok(access_rights),
          ac |-> [access_control EXCEPT ![AcKey(user, key_id)] = access_rights],
          sk |-> shared_keys \cup {SkKey(key_id, user)}]

\* mutant: the rights are written for every key id of the same owner
set_user_rights_all_names(caller, key_id, user, access_rights) ==
    LET chk == ensure_user_can_set_user_rights(caller, key_id) IN
    IF chk.tag # "Ok"
    THEN [res |-> chk, ac |-> access_control, sk |-> shared_keys]
    ELSE IF caller = key_id[1] /\ caller = user
    THEN [res |-> Err("cannot change key owner's user rights"),
          ac |-> access_control, sk |-> shared_keys]
    ELSE [res |-> Ok(access_control[AcKey(user, key_id)]),
          ac |-> [e \in DOMAIN access_control |->
                     IF e[1] = user /\ e[2][1] = key_id[1]
                     THEN access_rights ELSE access_control[e]],
          sk |-> shared_keys \cup {SkKey(key_id, user)}]

\* what set_user_rights returns and the two maps it leaves
set_user_rights(caller, key_id, user, access_rights) ==
    LET chk == ensure_user_can_set_user_rights(caller, key_id) IN
    IF chk.tag # "Ok"
    THEN [res |-> chk, ac |-> access_control, sk |-> shared_keys]
    ELSE IF caller = key_id[1] /\ caller = user
    THEN [res |-> Err("cannot change key owner's user rights"),
          ac |-> access_control, sk |-> shared_keys]
    ELSE [res |-> Ok(access_control[AcKey(user, key_id)]),
          ac |-> [access_control EXCEPT ![AcKey(user, key_id)] = access_rights],
          sk |-> shared_keys \cup {SkKey(key_id, user)}]

\* mutant: the entry of shared_keys is left behind
remove_user_keeps_index(caller, key_id, user) ==
    LET chk == ensure_user_can_set_user_rights(caller, key_id) IN
    IF chk.tag # "Ok"
    THEN [res |-> chk, ac |-> access_control, sk |-> shared_keys]
    ELSE IF caller = user /\ caller = key_id[1]
    THEN [res |-> Err("cannot remove key owner"),
          ac |-> access_control, sk |-> shared_keys]
    ELSE [res |-> Ok(access_control[AcKey(user, key_id)]),
          ac |-> [access_control EXCEPT ![AcKey(user, key_id)] = None],
          sk |-> shared_keys]

\* mutant: the rights removed are not returned
remove_user_returns_none(caller, key_id, user) ==
    LET chk == ensure_user_can_set_user_rights(caller, key_id) IN
    IF chk.tag # "Ok"
    THEN [res |-> chk, ac |-> access_control, sk |-> shared_keys]
    ELSE IF caller = user /\ caller = key_id[1]
    THEN [res |-> Err("cannot remove key owner"),
          ac |-> access_control, sk |-> shared_keys]
    ELSE [res |-> Ok(None),
          ac |-> [access_control EXCEPT ![AcKey(user, key_id)] = None],
          sk |-> shared_keys \ {SkKey(key_id, user)}]

\* mutant: the call reports success and the entry of access_control stays
remove_user_keeps_entry(caller, key_id, user) ==
    LET chk == ensure_user_can_set_user_rights(caller, key_id) IN
    IF chk.tag # "Ok"
    THEN [res |-> chk, ac |-> access_control, sk |-> shared_keys]
    ELSE IF caller = user /\ caller = key_id[1]
    THEN [res |-> Err("cannot remove key owner"),
          ac |-> access_control, sk |-> shared_keys]
    ELSE [res |-> Ok(access_control[AcKey(user, key_id)]),
          ac |-> access_control,
          sk |-> shared_keys \ {SkKey(key_id, user)}]

\* mutant: no caller may remove itself
remove_user_no_self(caller, key_id, user) ==
    LET chk == ensure_user_can_set_user_rights(caller, key_id) IN
    IF chk.tag # "Ok"
    THEN [res |-> chk, ac |-> access_control, sk |-> shared_keys]
    ELSE IF caller = user
    THEN [res |-> Err("cannot remove key owner"),
          ac |-> access_control, sk |-> shared_keys]
    ELSE [res |-> Ok(access_control[AcKey(user, key_id)]),
          ac |-> [access_control EXCEPT ![AcKey(user, key_id)] = None],
          sk |-> shared_keys \ {SkKey(key_id, user)}]

\* what remove_user returns and the two maps it leaves
remove_user(caller, key_id, user) ==
    LET chk == ensure_user_can_set_user_rights(caller, key_id) IN
    IF chk.tag # "Ok"
    THEN [res |-> chk, ac |-> access_control, sk |-> shared_keys]
    ELSE IF caller = user /\ caller = key_id[1]
    THEN [res |-> Err("cannot remove key owner"),
          ac |-> access_control, sk |-> shared_keys]
    ELSE [res |-> Ok(access_control[AcKey(user, key_id)]),
          ac |-> [access_control EXCEPT ![AcKey(user, key_id)] = None],
          sk |-> shared_keys \ {SkKey(key_id, user)}]

SetUserRights(caller, key_id, user, access_rights) ==
    LET out == set_user_rights(caller, key_id, user, access_rights) IN
    /\ \/ out.ac = access_control
       \/ access_control[AcKey(user, key_id)] # None
       \/ Cardinality(Grants) < MaxGrants
    /\ access_control' = out.ac
    /\ shared_keys' = out.sk
    /\ UNCHANGED <<domain_separator, mapkey_vals, calls,
                 KEY_MANAGER, derivation_inputs>>

RemoveUser(caller, key_id, user) ==
    LET out == remove_user(caller, key_id, user) IN
    /\ access_control' = out.ac
    /\ shared_keys' = out.sk
    /\ UNCHANGED <<domain_separator, mapkey_vals, calls,
                 KEY_MANAGER, derivation_inputs>>

\* ------------------------------------------------------------- 4.3 enumeration
RECURSIVE Ascending(_)
\* the elements of a finite set of numbers in the order a range scan meets them
Ascending(S) ==
    IF S = {} THEN << >>
    ELSE LET m == CHOOSE x \in S : \A y \in S : x <= y IN <<m>> \o Ascending(S \ {m})

\* the order of the keys of access_control: (Principal, (Principal, Blob<32>))
\* compared field by field; the management canister and Blob::default() are least
AcKeyLeq(a, b) ==
    \/ a[1] < b[1]
    \/ a[1] = b[1] /\ a[2][1] < b[2][1]
    \/ a[1] = b[1] /\ a[2][1] = b[2][1] /\ a[2][2] <= b[2][2]

RECURSIVE InKeyOrder(_)
\* the keys of a set of entries of access_control in the order of the B-tree
InKeyOrder(S) ==
    IF S = {} THEN << >>
    ELSE LET m == CHOOSE x \in S : \A y \in S : AcKeyLeq(x, y) IN
         <<m>> \o InKeyOrder(S \ {m})

\* mutant: the range leaves its lower bound out
range_after(S, start) == SelectSeq(InKeyOrder(S), LAMBDA e : ~AcKeyLeq(e, start))

\* range(start..): the keys not below start, in order
range_from(S, start) == SelectSeq(InKeyOrder(S), LAMBDA e : AcKeyLeq(start, e))

RECURSIVE take_while_caller(_, _)
\* take_while(|((p, _), _)| p == &caller)
take_while_caller(entries, caller) ==
    IF entries = << >> \/ entries[1][1] # caller THEN << >>
    ELSE <<entries[1]>> \o take_while_caller(Tail(entries), caller)

\* what get_accessible_shared_key_ids returns: a Vec of key ids
get_accessible_shared_key_ids(caller) ==
    LET entries == take_while_caller(range_from(Grants, AcKey(caller, <<0, 0>>)), caller)
    IN  [i \in 1 .. Len(entries) |-> entries[i][2]]

\* what get_user_rights returns
get_user_rights(caller, key_id, user) ==
    LET chk == ensure_user_can_get_user_rights(caller, key_id) IN
    IF chk.tag # "Ok" THEN chk
    ELSE LET r == ensure_user_can_read(user, key_id) IN
         Ok(IF r.tag = "Ok" THEN r.val ELSE None)

\* what get_shared_user_access_for_key returns
get_shared_user_access_for_key(caller, key_id) ==
    LET chk == ensure_user_can_get_user_rights(caller, key_id)
        users == Ascending({u \in Principals :
                               u >= 0 /\ SkKey(key_id, u) \in shared_keys})
        rights(u) == get_user_rights(caller, key_id, u)
    IN  IF chk.tag # "Ok" THEN chk
        ELSE IF \E i \in 1 .. Len(users) : rights(users[i]).val = None
        THEN Panic("always some access rights")
        ELSE Ok([i \in 1 .. Len(users) |-> <<users[i], rights(users[i]).val>>])

\* ------------------------------------------------------------- 4.4 derivation
PrincipalBytes(p) == IF p = 0 THEN << >> ELSE <<p>>
NameBytes(n) == IF n = 0 THEN << >> ELSE <<n>>

\* principal is principal.as_slice(); a principal has at most 29 bytes, so the
\* cast of the length to u8 loses nothing
key_id_to_vetkd_input(principal, key_name) ==
    <<Len(principal) % 256>> \o principal \o key_name

\* the request get_vetkey_verification_key builds
get_vetkey_verification_key ==
    [method |-> "vetkd_public_key", context |-> domain_separator]

\* mutant: the request is built without the read check
get_encrypted_vetkey_unchecked(caller, key_id, transport_key) ==
    [res |-> Ok("future"),
     request |-> [method |-> "vetkd_derive_key",
                  input |-> key_id_to_vetkd_input(PrincipalBytes(key_id[1]),
                                                  NameBytes(key_id[2])),
                  context |-> domain_separator,
                  transport_public_key |-> transport_key]]

\* mutant: the context is a fixed string, not the content of the cell
get_encrypted_vetkey_fixed_context(caller, key_id, transport_key) ==
    LET chk == ensure_user_can_read(caller, key_id) IN
    IF chk.tag # "Ok"
    THEN [res |-> chk, request |-> NoRequest]
    ELSE [res |-> Ok("future"),
          request |-> [method |-> "vetkd_derive_key",
                       input |-> key_id_to_vetkd_input(PrincipalBytes(key_id[1]),
                                                  NameBytes(key_id[2])),
                       context |-> "ds1",
                       transport_public_key |-> transport_key]]

\* what get_encrypted_vetkey returns at once and the request it builds
get_encrypted_vetkey(caller, key_id, transport_key) ==
    LET chk == ensure_user_can_read(caller, key_id) IN
    IF chk.tag # "Ok"
    THEN [res |-> chk, request |-> NoRequest]
    ELSE [res |-> Ok("future"),
          request |-> [method |-> "vetkd_derive_key",
                       input |-> key_id_to_vetkd_input(PrincipalBytes(key_id[1]),
                                                  NameBytes(key_id[2])),
                       context |-> domain_separator,
                       transport_public_key |-> transport_key]]

\* mutant: the read check is made again when the response arrives
future_output_rechecked(s, call_result) ==
    IF /\ calls[s].request.method = "vetkd_derive_key"
       /\ ensure_user_can_read(calls[s].caller, calls[s].key_id).tag # "Ok"
    THEN Err("unauthorized")
    ELSE IF call_result.tag = "Ok"
    THEN Value(call_result.val)
    ELSE Panic("call to " \o calls[s].request.method \o " failed")

\* the closure of future.map on the call result of slot s: expect()
future_output(s, call_result) ==
    IF call_result.tag = "Ok"
    THEN Value(call_result.val)
    ELSE Panic("call to " \o calls[s].request.method \o " failed")

FreeSlots == {s \in CallSlots : calls[s].status # "pending"}
Pending(caller, key_id, request) ==
    [status |-> "pending", caller |-> caller, key_id |-> key_id,
     request |-> request, response |-> None, output |-> None]

\* ic_cdk::api::call::call: the request leaves in the first free slot
call(caller, key_id, request) ==
    /\ FreeSlots # {}
    /\ LET s == CHOOSE f \in FreeSlots : \A g \in FreeSlots : f <= g IN
       calls' = [calls EXCEPT ![s] = Pending(caller, key_id, request)]

GetVetkeyVerificationKey ==
    /\ call(None, None, get_vetkey_verification_key)
    /\ UNCHANGED <<domain_separator, access_control, shared_keys, mapkey_vals,
                 KEY_MANAGER, derivation_inputs>>

\* mutant: a served caller is entered in shared_keys
GetEncryptedVetkeyRecordsCaller(caller, key_id, transport_key) ==
    LET out == get_encrypted_vetkey(caller, key_id, transport_key) IN
    /\ IF out.res.tag = "Ok"
       THEN call(caller, key_id, out.request)
       ELSE UNCHANGED calls
    /\ shared_keys' = IF out.res.tag = "Ok"
                      THEN shared_keys \cup {SkKey(key_id, caller)}
                      ELSE shared_keys
    /\ UNCHANGED <<domain_separator, access_control, mapkey_vals,
                 KEY_MANAGER, derivation_inputs>>

GetEncryptedVetkey(caller, key_id, transport_key) ==
    LET out == get_encrypted_vetkey(caller, key_id, transport_key) IN
    /\ IF out.res.tag = "Ok"
       THEN call(caller, key_id, out.request)
       ELSE UNCHANGED calls
    /\ UNCHANGED <<domain_separator, access_control, shared_keys, mapkey_vals,
                 KEY_MANAGER, derivation_inputs>>

\* the response of the vetKD system API resumes the future of slot s
Resume(s, call_result) ==
    /\ calls[s].status = "pending"
    /\ calls' = [calls EXCEPT ![s].status = "done",
                              ![s].response = call_result,
                              ![s].output = future_output(s, call_result)]
    /\ UNCHANGED <<domain_separator, access_control, shared_keys, mapkey_vals,
                 KEY_MANAGER, derivation_inputs>>

CallReply(s, blob) == Resume(s, Ok(blob))
CallReject(s) == Resume(s, Err("rejected"))

\* ------------------------------------------------------------- KeyManager::init
\* the outcomes of a call of KeyManager::init on a broker that is already
\* set up: the function returns Self, so it hands out one more instance over
\* the same memories, unless StableCell::init fails and expect() panics
init(domain_separator_arg) ==
    {Value("KeyManager"), Panic("failed to initialize domain separator")}

\* the maps live in the stable memories and are found again by the new
\* instance; whether the cell keeps its string is up to StableCell::init
KeyManagerInit(domain_separator_arg) ==
    /\ domain_separator' \in {domain_separator, domain_separator_arg}
    /\ UNCHANGED <<access_control, shared_keys, mapkey_vals, calls,
                   KEY_MANAGER, derivation_inputs>>

\* ------------------------------------------------------------- cdk KeyManager
\* StableBTreeMap::init on the two memories of a fresh canister
NewKeyManager ==
    [access_control |-> [k \in Principals \X KeyIds |-> None], shared_keys |-> {}]

\* what try_init returns and the KEY_MANAGER it leaves
try_init ==
    IF KEY_MANAGER.is_some
    THEN [res |-> Err("AlreadyInitialized"), cell |-> KEY_MANAGER]
    ELSE [res |-> Ok("()"), cell |-> Some(NewKeyManager)]

TryInit ==
    /\ KEY_MANAGER' = try_init.cell
    /\ UNCHANGED <<domain_separator, access_control, shared_keys, mapkey_vals, calls,
                   derivation_inputs>>

NotInitialized == Err("memory not initialized")
\* Result::unwrap / expect on the Err of with_borrow
UnwrapPanic == Panic("called Result::unwrap() on an Err value: memory not initialized")
ExpectPanic == Panic("cannot fail: memory not initialized")

\* with_borrow(|km| Ok(km.access_control.get(&(user, key_id))))
cdk_access_control_get(user, key_id) ==
    IF KEY_MANAGER.is_some
    THEN Ok(KEY_MANAGER.access_control[AcKey(user, key_id)])
    ELSE NotInitialized

cdk_ensure_user_can_read(user, key_id) ==
    IF user = key_id[1] THEN Ok(ReadWriteManage)
    ELSE LET has_shared_access == cdk_access_control_get(user, key_id) IN
         IF has_shared_access.tag # "Ok" THEN UnwrapPanic
         ELSE IF has_shared_access.val # None THEN Ok(has_shared_access.val)
         ELSE Err("unauthorized")

cdk_ensure_user_can_manage(user, key_id) ==
    IF user = key_id[1] THEN Ok(ReadWriteManage)
    ELSE LET has_shared_access == cdk_access_control_get(user, key_id) IN
         IF has_shared_access.tag # "Ok" THEN UnwrapPanic
         ELSE IF has_shared_access.val = ReadWriteManage THEN Ok(has_shared_access.val)
         ELSE Err("unauthorized")

\* what the cdk set_user_rights returns and the KEY_MANAGER it leaves
cdk_set_user_rights(caller, key_id, user, access_rights) ==
    LET chk == cdk_ensure_user_can_manage(caller, key_id) IN
    IF chk.tag # "Ok" THEN [res |-> chk, cell |-> KEY_MANAGER]
    ELSE IF caller = key_id[1] /\ caller = user
    THEN [res |-> Err("cannot change key owner's user rights"), cell |-> KEY_MANAGER]
    ELSE IF ~KEY_MANAGER.is_some THEN [res |-> NotInitialized, cell |-> KEY_MANAGER]
    ELSE [res |-> Ok(KEY_MANAGER.access_control[AcKey(user, key_id)]),
          cell |-> [KEY_MANAGER EXCEPT
                      !.shared_keys = (@ \cup {SkKey(key_id, user)}),
                      !.access_control[AcKey(user, key_id)] = access_rights]]

\* what the cdk remove_user returns and the KEY_MANAGER it leaves
cdk_remove_user(caller, key_id, user) ==
    LET chk == cdk_ensure_user_can_manage(caller, key_id) IN
    IF chk.tag # "Ok" THEN [res |-> chk, cell |-> KEY_MANAGER]
    ELSE IF caller = user /\ caller = key_id[1]
    THEN [res |-> Err("cannot remove key owner"), cell |-> KEY_MANAGER]
    ELSE IF ~KEY_MANAGER.is_some THEN [res |-> NotInitialized, cell |-> KEY_MANAGER]
    ELSE [res |-> Ok(KEY_MANAGER.access_control[AcKey(user, key_id)]),
          cell |-> [KEY_MANAGER EXCEPT
                      !.shared_keys = (@ \ {SkKey(key_id, user)}),
                      !.access_control[AcKey(user, key_id)] = None]]

CdkGrants ==
    IF KEY_MANAGER.is_some
    THEN {k \in DOMAIN KEY_MANAGER.access_control : KEY_MANAGER.access_control[k] # None}
    ELSE {}

CdkSetUserRights(caller, key_id, user, access_rights) ==
    LET out == cdk_set_user_rights(caller, key_id, user, access_rights) IN
    /\ IF out.cell = KEY_MANAGER THEN TRUE
       ELSE \/ KEY_MANAGER.access_control[AcKey(user, key_id)] # None
            \/ Cardinality(CdkGrants) < MaxGrants
    /\ KEY_MANAGER' = out.cell
    /\ UNCHANGED <<domain_separator, access_control, shared_keys, mapkey_vals, calls,
                   derivation_inputs>>

CdkRemoveUser(caller, key_id, user) ==
    /\ KEY_MANAGER' = cdk_remove_user(caller, key_id, user).cell
    /\ UNCHANGED <<domain_separator, access_control, shared_keys, mapkey_vals, calls,
                   derivation_inputs>>

\* what the cdk get_accessible_shared_key_ids returns: with_borrow(..).expect()
cdk_get_accessible_shared_key_ids(caller) ==
    IF ~KEY_MANAGER.is_some THEN ExpectPanic
    ELSE LET entries == take_while_caller(
                            range_from(CdkGrants, AcKey(caller, <<0, 0>>)), caller)
         IN  Value([i \in 1 .. Len(entries) |-> entries[i][2]])

\* what the cdk get_user_rights returns
cdk_get_user_rights(caller, key_id, user) ==
    LET chk == cdk_ensure_user_can_read(caller, key_id) IN
    IF chk.tag # "Ok" THEN chk
    ELSE LET r == cdk_ensure_user_can_read(user, key_id) IN
         IF r.tag = "Panic" THEN r
         ELSE Ok(IF r.tag = "Ok" THEN r.val ELSE None)

\* what the cdk get_shared_user_access_for_key returns
cdk_get_shared_user_access_for_key(caller, key_id) ==
    LET chk == cdk_ensure_user_can_read(caller, key_id) IN
    IF chk.tag # "Ok" THEN chk
    ELSE IF ~KEY_MANAGER.is_some THEN Err("\"memory not initialized\"")
    ELSE LET users == Ascending({u \in Principals :
                                    u >= 0 /\ SkKey(key_id, u) \in KEY_MANAGER.shared_keys})
             rights(u) == cdk_get_user_rights(caller, key_id, u)
         IN  IF \E i \in 1 .. Len(users) : rights(users[i]).val = None
             THEN Panic("always some access rights")
             ELSE Ok([i \in 1 .. Len(users) |-> <<users[i], rights(users[i]).val>>])

\* what is_key_shared returns
is_key_shared(key_id) ==
    IF ~KEY_MANAGER.is_some THEN NotInitialized
    ELSE Ok(\E u \in Principals : u >= 0 /\ SkKey(key_id, u) \in KEY_MANAGER.shared_keys)

\* ------------------------------------------------------------- 4.4 the vetKD input
\* principals (Principal::as_slice) and key names (Blob<32>::as_ref) written
\* out in bytes: both are byte strings of variable length
ByteValues == {65, 66}
ByteStrings == UNION {[1 .. n -> ByteValues] : n \in 0 .. MaxBytes}
ByteKeyIds == ByteStrings \X ByteStrings

\* cdk get_encrypted_vetkey: the bytes of key_id.0 chained with those of key_id.1
derivation_id(key_id) == key_id[1] \o key_id[2]

\* cdk: the derivation path of every request is a constant of the library
KEY_MANAGER_DERIVATION_PATH == "key_manager"

\* the request the cdk get_vetkey_verification_key builds
cdk_get_vetkey_verification_key ==
    [method |-> "vetkd_public_key",
     derivation_path |-> <<KEY_MANAGER_DERIVATION_PATH>>]

\* what the cdk get_encrypted_vetkey returns before the call and the request
\* it builds
cdk_get_encrypted_vetkey(caller, key_id, transport_key) ==
    LET chk == cdk_ensure_user_can_read(caller, key_id) IN
    IF chk.tag # "Ok"
    THEN [res |-> chk, request |-> NoRequest]
    ELSE [res |-> Ok("future"),
          request |-> [method |-> "vetkd_encrypted_key",
                       derivation_id |-> derivation_id(<<PrincipalBytes(key_id[1]),
                                                         NameBytes(key_id[2])>>),
                       public_key_derivation_path |-> <<KEY_MANAGER_DERIVATION_PATH>>,
                       encryption_public_key |-> transport_key]]

InitInputs ==
    /\ InitTables
    /\ KEY_MANAGER = NoKeyManager
    /\ \E k1 \in ByteKeyIds, k2 \in ByteKeyIds :
          derivation_inputs = [key_ids |-> <<k1, k2>>,
                               vetkd_input |-> << >>, derivation_id |-> << >>]

\* backend get_encrypted_vetkey builds the input of the two key ids
BuildVetkdInput ==
    /\ derivation_inputs.vetkd_input = << >>
    /\ derivation_inputs' =
          [derivation_inputs EXCEPT !.vetkd_input =
              [i \in 1 .. 2 |-> key_id_to_vetkd_input(derivation_inputs.key_ids[i][1],
                                                      derivation_inputs.key_ids[i][2])]]
    /\ UNCHANGED <<domain_separator, access_control, shared_keys, mapkey_vals, calls,
                   KEY_MANAGER>>

\* cdk get_encrypted_vetkey builds the derivation id of the two key ids
BuildDerivationId ==
    /\ derivation_inputs.derivation_id = << >>
    /\ derivation_inputs' =
          [derivation_inputs EXCEPT !.derivation_id =
              [i \in 1 .. 2 |-> derivation_id(derivation_inputs.key_ids[i])]]
    /\ UNCHANGED <<domain_separator, access_control, shared_keys, mapkey_vals, calls,
                   KEY_MANAGER>>

\* ------------------------------------------------------------- 4.5 value store
\* what insert_encrypted_value returns and the store it leaves
insert_encrypted_value(caller, map_id, key, value) ==
    LET chk == ensure_user_can_read(caller, map_id) IN
    IF chk.tag # "Ok"
    THEN [res |-> chk, vals |-> mapkey_vals]
    ELSE IF ~can_write(chk.val)
    THEN [res |-> Err("unauthorized user"), vals |-> mapkey_vals]
    ELSE [res |-> Ok(mapkey_vals[<<map_id, key>>]),
          vals |-> [mapkey_vals EXCEPT ![<<map_id, key>>] = value]]

\* what remove_encrypted_value returns and the store it leaves
remove_encrypted_value(caller, map_id, key) ==
    LET chk == ensure_user_can_read(caller, map_id) IN
    IF chk.tag # "Ok"
    THEN [res |-> chk, vals |-> mapkey_vals]
    ELSE IF ~can_write(chk.val)
    THEN [res |-> Err("unauthorized user"), vals |-> mapkey_vals]
    ELSE [res |-> Ok(mapkey_vals[<<map_id, key>>]),
          vals |-> [mapkey_vals EXCEPT ![<<map_id, key>>] = None]]

\* what get_encrypted_value returns
get_encrypted_value(caller, map_id, key) ==
    LET chk == ensure_user_can_read(caller, map_id) IN
    IF chk.tag # "Ok" THEN chk ELSE Ok(mapkey_vals[<<map_id, key>>])

\* what remove_map_values returns (the set of the values removed) and the store it leaves
remove_map_values(caller, map_id) ==
    LET chk == ensure_user_can_write(caller, map_id) IN
    IF chk.tag # "Ok"
    THEN [res |-> chk, vals |-> mapkey_vals]
    ELSE [res |-> Ok({<<k[2], mapkey_vals[k]>> : k \in {e \in StoredValues : e[1] = map_id}}),
          vals |-> [k \in DOMAIN mapkey_vals |->
                        IF k[1] = map_id THEN None ELSE mapkey_vals[k]]]

\* what get_encrypted_values_for_map returns: the pairs of the map in key order
get_encrypted_values_for_map(caller, map_id) ==
    LET chk == ensure_user_can_read(caller, map_id)
        keys == SelectSeq(MapKeysInOrder, LAMBDA mk : mapkey_vals[<<map_id, mk>>] # None)
    IN  IF chk.tag # "Ok" THEN chk
        ELSE Ok([i \in 1 .. Len(keys) |-> <<keys[i], mapkey_vals[<<map_id, keys[i]>>]>>])

\* mutant: the maps of every owner are listed
get_owned_non_empty_map_names_of_all(caller) ==
    Ok(Ascending({n \in KeyNames :
                    \E o \in Principals, mk \in AllMapKeys :
                        mapkey_vals[<<<<o, n>>, mk>>] # None}))

\* what get_owned_non_empty_map_names returns: the names of the caller's maps
\* that hold an entry
get_owned_non_empty_map_names(caller) ==
    Ok(Ascending({n \in KeyNames :
                    \E mk \in AllMapKeys : mapkey_vals[<<<<caller, n>>, mk>>] # None}))

\* insert_encrypted_value while fewer than cap entries are in use
InsertEncryptedValueUpTo(cap, caller, map_id, key, value) ==
    LET out == insert_encrypted_value(caller, map_id, key, value) IN
    /\ \/ out.vals = mapkey_vals
       \/ mapkey_vals[<<map_id, key>>] # None
       \/ Cardinality(StoredValues) < cap
    /\ mapkey_vals' = out.vals
    /\ UNCHANGED <<domain_separator, access_control, shared_keys, calls,
                   KEY_MANAGER, derivation_inputs>>

InsertEncryptedValue(caller, map_id, key, value) ==
    InsertEncryptedValueUpTo(MaxValues, caller, map_id, key, value)

RemoveEncryptedValue(caller, map_id, key) ==
    /\ mapkey_vals' = remove_encrypted_value(caller, map_id, key).vals
    /\ UNCHANGED <<domain_separator, access_control, shared_keys, calls,
                 KEY_MANAGER, derivation_inputs>>

RemoveMapValues(caller, map_id) ==
    /\ mapkey_vals' = remove_map_values(caller, map_id).vals
    /\ UNCHANGED <<domain_separator, access_control, shared_keys, calls,
                 KEY_MANAGER, derivation_inputs>>

\* ------------------------------------------------------------- specifications
Rights ==
    \/ \E caller \in Principals, key_id \in KeyIds, user \in Principals, r \in AccessRights :
          SetUserRights(caller, key_id, user, r)
    \/ \E caller \in Principals, key_id \in KeyIds, user \in Principals :
          RemoveUser(caller, key_id, user)

Derivation ==
    \/ GetVetkeyVerificationKey
    \/ \E caller \in Principals, key_id \in KeyIds, tk \in TransportKeys :
          GetEncryptedVetkey(caller, key_id, tk)
    \/ \E s \in CallSlots, blob \in ReplyBlobs : CallReply(s, blob)
    \/ \E s \in CallSlots : CallReject(s)

Maps ==
    \/ \E caller \in Principals, map_id \in KeyIds, key \in MapKeys, value \in Values :
          InsertEncryptedValue(caller, map_id, key, value)
    \/ \E caller \in Principals, map_id \in KeyIds, key \in MapKeys :
          RemoveEncryptedValue(caller, map_id, key)
    \/ \E caller \in Principals, map_id \in KeyIds : RemoveMapValues(caller, map_id)

\* the whole broker
Next == Rights \/ Derivation \/ Maps
Spec == Init /\ [][Next]_vars

\* grant and revoke alone
SpecRights == Init /\ [][Rights]_vars

\* the KeyManager: grant, revoke and the two calls to the vetKD system API
NextDerive == Rights \/ Derivation
SpecDerive == Init /\ [][NextDerive]_vars

\* the EncryptedMaps: grant, revoke and the value store
NextMaps == Rights \/ Maps
SpecMaps == Init /\ [][NextMaps]_vars

\* the EncryptedMaps with every map key: grant, revoke and the value store
Store ==
    \/ \E caller \in Principals, map_id \in KeyIds, key \in AllMapKeys, value \in Values :
          InsertEncryptedValueUpTo(MaxStored, caller, map_id, key, value)
    \/ \E caller \in Principals, map_id \in KeyIds, key \in AllMapKeys :
          RemoveEncryptedValue(caller, map_id, key)
    \/ \E caller \in Principals, map_id \in KeyIds : RemoveMapValues(caller, map_id)
NextStore == Rights \/ Store
SpecStore == Init /\ [][NextStore]_vars

\* the backend KeyManager with one more call of its constructor
NextInit ==
    \/ Rights
    \/ \E ds \in DomainSeparators : KeyManagerInit(ds)
SpecInit == Init /\ [][NextInit]_vars

\* the cdk KeyManager: try_init, grant and revoke on the singleton
NextCdk ==
    \/ TryInit
    \/ \E caller \in Principals, key_id \in KeyIds, user \in Principals, r \in AccessRights :
          CdkSetUserRights(caller, key_id, user, r)
    \/ \E caller \in Principals, key_id \in KeyIds, user \in Principals :
          CdkRemoveUser(caller, key_id, user)
SpecCdk == Init /\ [][NextCdk]_vars

\* the two KeyManagers and the calls to the vetKD system API, the backend
\* one set up with either domain separator
InitSeparators == {"ds1", "ds2"}
InitContext ==
    /\ domain_separator \in InitSeparators
    /\ access_control = [k \in Principals \X KeyIds |-> None]
    /\ shared_keys = {}
    /\ mapkey_vals = [k \in KeyIds \X AllMapKeys |-> None]
    /\ calls = [s \in CallSlots |-> Idle]
    /\ KEY_MANAGER = NoKeyManager
    /\ derivation_inputs = None
NextContext == NextCdk \/ Derivation
SpecContext == InitContext /\ [][NextContext]_vars

\* grant and revoke over the key ids of two key names
InitIsolation ==
    /\ domain_separator \in DomainSeparators
    /\ access_control = [k \in Principals \X AllKeyIds |-> None]
    /\ shared_keys = {}
    /\ mapkey_vals = [k \in KeyIds \X AllMapKeys |-> None]
    /\ calls = [s \in CallSlots |-> Idle]
    /\ KEY_MANAGER = NoKeyManager
    /\ derivation_inputs = None
NextIsolation ==
    \/ \E caller \in Principals, key_id \in AllKeyIds, user \in Principals, r \in AccessRights :
          SetUserRights(caller, key_id, user, r)
    \/ \E caller \in Principals, key_id \in AllKeyIds, user \in Principals :
          RemoveUser(caller, key_id, user)
SpecIsolation == InitIsolation /\ [][NextIsolation]_vars

\* the vetKD input of two key ids, by either KeyManager
NextInputs == BuildVetkdInput \/ BuildDerivationId
SpecInputs == InitInputs /\ [][NextInputs]_vars
\* ------------------------------------------------------------- properties
Owner(key_id) == key_id[1]
Unauthorized == Err("unauthorized")

\* C1: no entry of access_control and no entry of shared_keys has the owner of
\* its key id as the grantee.
C1_OwnerNeverGrantee ==
    /\ \A k \in Grants : k[1] # Owner(k[2])
    /\ \A e \in shared_keys : e[2] # Owner(e[1])

\* C2: in every reachable state each of the four checks, called for the owner
\* of a key id, succeeds with ReadWriteManage, whatever the table holds.
C2_OwnerAlwaysMaximal ==
    \A k \in KeyIds :
        /\ ensure_user_can_read(Owner(k), k) = Ok(ReadWriteManage)
        /\ ensure_user_can_write(Owner(k), k) = Ok(ReadWriteManage)
        /\ ensure_user_can_get_user_rights(Owner(k), k) = Ok(ReadWriteManage)
        /\ ensure_user_can_set_user_rights(Owner(k), k) = Ok(ReadWriteManage)

\* C2 witness: the table holds a lesser entry for the owner of a key id.
C2_Witness ==
    \E k \in KeyIds : access_control[AcKey(Owner(k), k)] \in {Read, ReadWrite}

\* C3: (key_id, user) is in shared_keys exactly when (user, key_id) is in
\* access_control.
C3_IndexMatchesTable ==
    \A u \in Principals, k \in KeyIds :
        (SkKey(k, u) \in shared_keys) <=> (access_control[AcKey(u, k)] # None)

\* C3 witness: after two grants and a revocation the one entry left in both
\* maps is the one a manager made for the owner of the key id.
C3_Witness ==
    \E k \in KeyIds, u \in Principals :
        /\ u # Owner(k)
        /\ Owner(k) \in {e[2] : e \in {x \in shared_keys : x[1] = k}}
        /\ SkKey(k, u) \notin shared_keys
        /\ Cardinality(shared_keys) = 1

\* the caller is neither the owner of key_id nor a grantee with ReadWriteManage
LacksManage(caller, key_id) ==
    /\ caller # Owner(key_id)
    /\ access_control[AcKey(caller, key_id)] \in {None, Read, ReadWrite}

\* C4: set_user_rights and remove_user by a caller that is neither the owner
\* nor a ReadWriteManage grantee return "unauthorized" for every target.
C4_UnauthorizedGrantRevoke ==
    \A c \in Principals, k \in KeyIds, u \in Principals :
        LacksManage(c, k) =>
            /\ remove_user(c, k, u).res = Unauthorized
            /\ \A r \in AccessRights : set_user_rights(c, k, u, r).res = Unauthorized

\* C4 witness: one caller holds Read and another ReadWrite on the same key id,
\* and both are refused on the owner, on themselves and on each other.
C4_Witness ==
    \E c \in Principals, d \in Principals, k \in KeyIds :
        /\ c # Owner(k) /\ d # Owner(k)
        /\ access_control[AcKey(c, k)] = Read
        /\ access_control[AcKey(d, k)] = ReadWrite
        /\ \A u \in {c, d, Owner(k)} :
              /\ remove_user(c, k, u).res = Unauthorized
              /\ set_user_rights(d, k, u, ReadWriteManage).res = Unauthorized

\* C5: set_user_rights and remove_user with caller = user = owner are refused
\* with an error other than "unauthorized", change nothing, and the owner
\* keeps ReadWriteManage.
C5_OwnerSelfChangeRejected ==
    \A k \in KeyIds :
        LET o == Owner(k)
            rm == remove_user(o, k, o)
        IN  /\ rm.res.tag = "Err" /\ rm.res # Unauthorized
            /\ rm.ac = access_control /\ rm.sk = shared_keys
            /\ \A r \in AccessRights :
                  LET set == set_user_rights(o, k, o, r) IN
                  /\ set.res.tag = "Err" /\ set.res # Unauthorized
                  /\ set.ac = access_control /\ set.sk = shared_keys
            /\ ensure_user_can_set_user_rights(o, k) = Ok(ReadWriteManage)

\* C5 witness: the owner is refused while the table holds grants on its key id.
C5_Witness ==
    \E k \in KeyIds :
        /\ Cardinality({e \in shared_keys : e[1] = k}) = 2
        /\ set_user_rights(Owner(k), k, Owner(k), Read).res.tag = "Err"
        /\ remove_user(Owner(k), k, Owner(k)).res.tag = "Err"
\* the caller is not the owner of key_id and has no entry / has an entry
NoEntry(caller, key_id) ==
    caller # Owner(key_id) /\ access_control[AcKey(caller, key_id)] = None
HasEntry(caller, key_id) ==
    caller # Owner(key_id) /\ access_control[AcKey(caller, key_id)] # None
\* two results that are both denials are the same error
SameDenial(r1, r2) == (r1.tag = "Err" /\ r2.tag = "Err") => r1.val = r2.val

\* the denials of the KeyManager do not tell a caller without an entry from a
\* caller whose entry is insufficient
KeyManagerDenialUniform ==
    \A c1 \in Principals, c2 \in Principals, k \in KeyIds :
        (NoEntry(c1, k) /\ HasEntry(c2, k)) =>
            /\ SameDenial(ensure_user_can_read(c1, k), ensure_user_can_read(c2, k))
            /\ SameDenial(ensure_user_can_write(c1, k), ensure_user_can_write(c2, k))
            /\ SameDenial(ensure_user_can_get_user_rights(c1, k),
                          ensure_user_can_get_user_rights(c2, k))
            /\ SameDenial(ensure_user_can_set_user_rights(c1, k),
                          ensure_user_can_set_user_rights(c2, k))
            /\ SameDenial(get_shared_user_access_for_key(c1, k),
                          get_shared_user_access_for_key(c2, k))
            /\ \A tk \in TransportKeys :
                  SameDenial(get_encrypted_vetkey(c1, k, tk).res,
                             get_encrypted_vetkey(c2, k, tk).res)
            /\ \A u \in Principals :
                  /\ SameDenial(remove_user(c1, k, u).res, remove_user(c2, k, u).res)
                  /\ \A r \in AccessRights :
                        SameDenial(set_user_rights(c1, k, u, r).res,
                                   set_user_rights(c2, k, u, r).res)

\* the denials of the value store do not tell them apart either
MapsDenialUniform ==
    \A c1 \in Principals, c2 \in Principals, k \in KeyIds :
        (NoEntry(c1, k) /\ HasEntry(c2, k)) =>
            /\ SameDenial(remove_map_values(c1, k).res, remove_map_values(c2, k).res)
            /\ \A mk \in MapKeys :
                  /\ SameDenial(remove_encrypted_value(c1, k, mk).res,
                                remove_encrypted_value(c2, k, mk).res)
                  /\ \A v \in Values :
                        SameDenial(insert_encrypted_value(c1, k, mk, v).res,
                                   insert_encrypted_value(c2, k, mk, v).res)

\* C6: a denied check or gated operation returns the same error to a caller
\* with no entry and to a caller whose entry is insufficient.
C6_UniformDenial == KeyManagerDenialUniform /\ MapsDenialUniform

DeriveCall(s) ==
    calls[s].status = "pending" /\ calls[s].request.method = "vetkd_derive_key"

\* a refused get_encrypted_vetkey returns "unauthorized" and builds no request
DeniedDeriveIssuesNothing ==
    \A c \in Principals, k \in KeyIds, tk \in TransportKeys :
        ensure_user_can_read(c, k).tag # "Ok" =>
            get_encrypted_vetkey(c, k, tk) = [res |-> Unauthorized, request |-> NoRequest]

\* a derivation request appears in a slot only in a step whose starting state
\* passes the read check for its caller and key id
RequestOnlyAfterCheck ==
    \A s \in CallSlots :
        (calls'[s] # calls[s] /\ DeriveCall(s)') =>
            ensure_user_can_read(calls'[s].caller, calls'[s].key_id).tag = "Ok"

\* C7: get_encrypted_vetkey issues its request only after ensure_user_can_read
\* has succeeded in the state of the call; a refused call returns
\* "unauthorized" and issues nothing.
C7_CheckBeforeRequest == []DeniedDeriveIssuesNothing /\ [][RequestOnlyAfterCheck]_vars

\* C7 witness: the request of a grantee that is not the owner is in flight.
C7_Witness ==
    \E s \in CallSlots : DeriveCall(s) /\ calls[s].caller # Owner(calls[s].key_id)

\* the caller of the derivation in flight in slot s has lost its read access
RevokedWhilePending(s) ==
    DeriveCall(s) /\ ensure_user_can_read(calls[s].caller, calls[s].key_id).tag # "Ok"

\* while a call is in flight no synchronous entry point is disabled (the
\* model's caps on the table and on the store apart)
NotBlocked ==
    (\E s \in CallSlots : calls[s].status = "pending") =>
        /\ \A c \in Principals, k \in KeyIds, u \in Principals :
              /\ ENABLED RemoveUser(c, k, u)
              /\ Cardinality(Grants) < MaxGrants =>
                    \A r \in AccessRights : ENABLED SetUserRights(c, k, u, r)
        /\ \A c \in Principals, k \in KeyIds :
              /\ ENABLED RemoveMapValues(c, k)
              /\ \A mk \in MapKeys :
                    /\ ENABLED RemoveEncryptedValue(c, k, mk)
                    /\ Cardinality(StoredValues) < MaxValues =>
                          \A v \in Values : ENABLED InsertEncryptedValue(c, k, mk, v)

\* the reply to a derivation whose caller has lost its read access in the
\* meantime is delivered all the same
DeliveredWithoutRecheck ==
    \A s \in CallSlots, blob \in ReplyBlobs :
        (RevokedWhilePending(s) /\ CallReply(s, blob)) =>
            calls'[s].output = Value(blob)

\* C8: while a derivation is in flight the synchronous operations are not
\* blocked, and the key is delivered to a caller whose grant was removed
\* between the request and its response.
C8_NoRecheckOnResume == []NotBlocked /\ [][DeliveredWithoutRecheck]_vars

\* C8 witness: the grant of a caller was removed while its request is in flight.
C8_Witness == \E s \in CallSlots : RevokedWhilePending(s)

\* C9: a failed call to the vetKD system API is returned to the caller as an
\* error value.
C9_FailureIsErrorValue ==
    \A s \in CallSlots :
        (calls[s].status = "done" /\ calls[s].response.tag = "Err") =>
            calls[s].output.tag = "Err"

\* the response to a call puts no new request in flight: nothing is retried
NoRetry ==
    \A s \in CallSlots :
        (calls[s].status = "pending" /\ calls'[s] # calls[s]) =>
            /\ calls'[s].status = "done"
            /\ \A t \in CallSlots \ {s} : calls'[t] = calls[t]
C9_NoRetry == [][NoRetry]_vars

\* C10: the steps of get_vetkey_verification_key and get_encrypted_vetkey
\* (the request and its response, the only steps that change calls) leave
\* access_control, shared_keys, the value store and the domain separator as
\* they were.
C10_DerivationChangesNoState ==
    [][calls' # calls =>
          UNCHANGED <<access_control, shared_keys, mapkey_vals, domain_separator>>]_vars

\* C10 witness: a call was answered with a reject while the table and the
\* store hold entries.
C10_Witness ==
    /\ Grants # {} /\ StoredValues # {}
    /\ \E s \in CallSlots : calls[s].status = "done" /\ calls[s].response.tag = "Err"

\* two key ids that differ have been drawn
DistinctKeyIds == derivation_inputs.key_ids[1] # derivation_inputs.key_ids[2]

\* the length-prefixed input of the backend KeyManager tells any two key ids apart
BackendInputInjective ==
    (DistinctKeyIds /\ derivation_inputs.vetkd_input # << >>) =>
        derivation_inputs.vetkd_input[1] # derivation_inputs.vetkd_input[2]

\* so does the derivation id of the cdk KeyManager
CdkInputInjective ==
    (DistinctKeyIds /\ derivation_inputs.derivation_id # << >>) =>
        derivation_inputs.derivation_id[1] # derivation_inputs.derivation_id[2]

\* C11: the derivation inputs built for two key ids that differ, of any
\* permitted lengths of owner and key name, differ.
C11_InputInjective == BackendInputInjective /\ CdkInputInjective

\* the cdk try_init on a KEY_MANAGER that is Some returns AlreadyInitialized
\* and leaves it as it is
CdkSecondInitReported ==
    KEY_MANAGER.is_some =>
        try_init = [res |-> Err("AlreadyInitialized"), cell |-> KEY_MANAGER]

\* so does the backend KeyManager::init on a broker that is set up
BackendSecondInitReported ==
    \A ds \in DomainSeparators : \A r \in init(ds) : r = Err("AlreadyInitialized")

\* C12: initializing the broker a second time returns the AlreadyInitialized
\* error and leaves the existing instance and its tables unchanged.
C12_SecondInitReported == CdkSecondInitReported /\ BackendSecondInitReported

\* C13: before the singleton is initialized every operation, for every
\* caller, returns an error value (it neither succeeds nor panics): the two
\* checks, grant, revoke and the enumerations.
C13_NotInitializedReported ==
    ~KEY_MANAGER.is_some =>
        \A c \in Principals, k \in KeyIds :
            /\ cdk_ensure_user_can_read(c, k).tag = "Err"
            /\ cdk_ensure_user_can_manage(c, k).tag = "Err"
            /\ cdk_get_accessible_shared_key_ids(c).tag = "Err"
            /\ cdk_get_shared_user_access_for_key(c, k).tag = "Err"
            /\ \A u \in Principals :
                  /\ cdk_get_user_rights(c, k, u).tag = "Err"
                  /\ cdk_remove_user(c, k, u).res.tag = "Err"
                  /\ \A r \in AccessRights :
                        cdk_set_user_rights(c, k, u, r).res.tag = "Err"

\* what does hold before try_init: is_key_shared, and grant and revoke by the
\* owner for another user, report that the memory is not initialized
CdkOwnerGrantBeforeInit ==
    ~KEY_MANAGER.is_some =>
        \A k \in KeyIds : \A u \in Principals \ {k[1]} :
            /\ is_key_shared(k) = NotInitialized
            /\ cdk_remove_user(k[1], k, u).res = NotInitialized
            /\ \A r \in AccessRights :
                  cdk_set_user_rights(k[1], k, u, r).res = NotInitialized

\* a call that returns an error leaves the maps it could write as they were;
\* a successful grant or revocation has written both maps
FailedCallsChangeNothing ==
    \A c \in Principals, k \in KeyIds :
        /\ remove_map_values(c, k).res.tag = "Err" =>
              remove_map_values(c, k).vals = mapkey_vals
        /\ \A mk \in MapKeys :
              /\ remove_encrypted_value(c, k, mk).res.tag = "Err" =>
                    remove_encrypted_value(c, k, mk).vals = mapkey_vals
              /\ \A v \in Values :
                    insert_encrypted_value(c, k, mk, v).res.tag = "Err" =>
                        insert_encrypted_value(c, k, mk, v).vals = mapkey_vals
        /\ \A u \in Principals :
              LET rm == remove_user(c, k, u) IN
              /\ rm.res.tag \in {"Ok", "Err"}
              /\ rm.res.tag = "Err" => (rm.ac = access_control /\ rm.sk = shared_keys)
              /\ rm.res.tag = "Ok" =>
                    (rm.ac[AcKey(u, k)] = None /\ SkKey(k, u) \notin rm.sk)
              /\ \A r \in AccessRights :
                    LET set == set_user_rights(c, k, u, r) IN
                    /\ set.res.tag \in {"Ok", "Err"}
                    /\ set.res.tag = "Err" =>
                          (set.ac = access_control /\ set.sk = shared_keys)
                    /\ set.res.tag = "Ok" =>
                          (set.ac[AcKey(u, k)] = r /\ SkKey(k, u) \in set.sk)

\* a step writes either the two maps of the KeyManager or the value store, and
\* an entry of access_control appears or goes exactly when its entry of
\* shared_keys does
PairedUpdate ==
    /\ (access_control' # access_control \/ shared_keys' # shared_keys) =>
          mapkey_vals' = mapkey_vals
    /\ \A u \in Principals, k \in KeyIds :
          ((access_control'[AcKey(u, k)] = None) # (access_control[AcKey(u, k)] = None))
             <=> ((SkKey(k, u) \in shared_keys') # (SkKey(k, u) \in shared_keys))

\* C14: set_user_rights, remove_user, insert_encrypted_value,
\* remove_encrypted_value and remove_map_values that return an error leave
\* access_control, shared_keys and the value store as before the call, and a
\* successful set_user_rights or remove_user updates both maps.
C14_NoPartialMutation == []FailedCallsChangeNothing /\ [][PairedUpdate]_vars

\* C14 witness: with a grant and a value in place, a Read grantee is refused
\* by all five operations.
C14_Witness ==
    \E c \in Principals, k \in KeyIds, mk \in MapKeys :
        /\ access_control[AcKey(c, k)] = Read /\ c # Owner(k)
        /\ mapkey_vals[<<k, mk>>] # None
        /\ insert_encrypted_value(c, k, mk, "v2").res.tag = "Err"
        /\ remove_encrypted_value(c, k, mk).res.tag = "Err"
        /\ remove_map_values(c, k).res.tag = "Err"
        /\ set_user_rights(c, k, c, ReadWriteManage).res.tag = "Err"
        /\ remove_user(c, k, c).res.tag = "Err"
        /\ set_user_rights(Owner(k), k, Owner(k), Read).res.tag = "Err"

\* a successful set_user_rights returns what was stored for (user, key_id),
\* None if nothing was, stores the new rights there and nowhere else
SetReturnsPrevious ==
    \A c \in Principals, k \in KeyIds, u \in Principals, r \in AccessRights :
        LET set == set_user_rights(c, k, u, r) IN
        set.res.tag = "Ok" =>
            /\ set.res = Ok(access_control[AcKey(u, k)])
            /\ set.ac = [access_control EXCEPT ![AcKey(u, k)] = r]

\* after a successful set_user_rights with L1, a second successful one with L2
\* for the same user and key id returns L1 and leaves L2
SecondSetReturnsFirst ==
    \A c \in Principals, k \in KeyIds, u \in Principals, L1 \in AccessRights :
        LET first == set_user_rights(c, k, u, L1) IN
        (first.res.tag = "Ok" /\ access_control' = first.ac /\ shared_keys' = first.sk) =>
            \A c2 \in Principals, L2 \in AccessRights :
                LET second == set_user_rights(c2, k, u, L2)' IN
                second.res.tag = "Ok" =>
                    (second.res = Ok(L1) /\ second.ac[AcKey(u, k)] = L2)

\* C15: set_user_rights overwrites: it returns None when (user, key_id) had no
\* entry and the previous rights otherwise; of two calls in a row the second
\* returns the rights of the first and only its own are stored.
C15_SetOverwrites == []SetReturnsPrevious /\ [][SecondSetReturnsFirst]_vars

\* C15 witness: a grantee holds ReadWrite after a first call, and a second call
\* with Read returns ReadWrite, while a call for a new user returns None.
C15_Witness ==
    \E k \in KeyIds, u \in Principals, v \in Principals :
        /\ u # Owner(k) /\ v # Owner(k)
        /\ access_control[AcKey(u, k)] = ReadWrite
        /\ access_control[AcKey(v, k)] = None
        /\ set_user_rights(Owner(k), k, u, Read).res = Ok(ReadWrite)
        /\ set_user_rights(Owner(k), k, v, Read).res = Ok(None)

\* C16: a successful remove_user removes (user, key_id) from access_control
\* and (key_id, user) from shared_keys and returns the rights that were
\* stored; with no entry it returns None and changes nothing.
C16_RemoveReturnsPrevious ==
    \A c \in Principals, k \in KeyIds, u \in Principals :
        LET rm == remove_user(c, k, u) IN
        rm.res.tag = "Ok" =>
            /\ rm.res = Ok(access_control[AcKey(u, k)])
            /\ rm.ac = [access_control EXCEPT ![AcKey(u, k)] = None]
            /\ rm.sk = shared_keys \ {SkKey(k, u)}
            /\ rm.ac[AcKey(u, k)] = None /\ SkKey(k, u) \notin rm.sk
            /\ access_control[AcKey(u, k)] = None =>
                  (rm.res = Ok(None) /\ rm.ac = access_control /\ rm.sk = shared_keys)

\* C16 witness: a manager that is not the owner removes a grantee and gets its
\* rights, and removes a user without an entry and gets None.
C16_Witness ==
    \E k \in KeyIds, m \in Principals, u \in Principals :
        /\ m # Owner(k) /\ u # Owner(k) /\ m # u
        /\ access_control[AcKey(m, k)] = ReadWriteManage
        /\ access_control[AcKey(u, k)] = Read
        /\ remove_user(m, k, u).res = Ok(Read)
        /\ SkKey(k, u) \in shared_keys /\ SkKey(k, u) \notin remove_user(m, k, u).sk
        /\ remove_user(m, k, Owner(k)).res = Ok(None)

\* the backend list of grantees is refused to a caller that is neither the
\* owner nor a ReadWriteManage grantee
BackendGranteesNeedManage ==
    \A c \in Principals, k \in KeyIds :
        LacksManage(c, k) =>
            /\ get_shared_user_access_for_key(c, k) = Unauthorized
            /\ \A u \in Principals : get_user_rights(c, k, u) = Unauthorized

\* so is the list of the cdk KeyManager
CdkGranteesNeedManage ==
    KEY_MANAGER.is_some =>
        \A c \in Principals, k \in KeyIds :
            (c # Owner(k) /\ KEY_MANAGER.access_control[AcKey(c, k)] \in {None, Read, ReadWrite})
                => cdk_get_shared_user_access_for_key(c, k) = Unauthorized

\* C17: get_shared_user_access_for_key by a caller that is not the owner and
\* whose entry is absent, Read or ReadWrite returns "unauthorized" and no
\* grantee; only the owner or a ReadWriteManage grantee receives the list.
C17_GranteesNeedManage == BackendGranteesNeedManage /\ CdkGranteesNeedManage

\* the key ids of the entries of access_control that caller holds
KeyIdsOf(caller) == {k \in KeyIds : access_control[AcKey(caller, k)] # None}

\* C18: get_accessible_shared_key_ids(caller) returns exactly the key ids k
\* with an entry (caller, k) in access_control, each once: none is missed, the
\* one with the least owner and the empty name included, and none of another
\* grantee is returned.
C18_AccessibleKeyIds ==
    \A c \in Principals :
        LET ids == get_accessible_shared_key_ids(c) IN
        /\ {ids[i] : i \in 1 .. Len(ids)} = KeyIdsOf(c)
        /\ Len(ids) = Cardinality(KeyIdsOf(c))

\* C18 witness: a caller holds the entry of the least key id (management
\* canister, Blob::default()) while a principal ordered after it holds an
\* entry too; the caller's list is that one key id.
C18_Witness ==
    \E c \in Principals, d \in Principals :
        /\ c < d
        /\ KeyIdsOf(c) = {<<0, 0>>}
        /\ KeyIdsOf(d) # {}
        /\ get_accessible_shared_key_ids(c) = << <<0, 0>> >>

\* the cdk enumeration, once the singleton is set up, is the same range scan
CdkAccessibleKeyIds ==
    KEY_MANAGER.is_some =>
        \A c \in Principals :
            LET ids == cdk_get_accessible_shared_key_ids(c).val IN
            {ids[i] : i \in 1 .. Len(ids)} =
                {k \in KeyIds : KEY_MANAGER.access_control[AcKey(c, k)] # None}

\* the two strings the value store refuses a caller with
UnauthorizedErrors == {Err("unauthorized"), Err("unauthorized user")}

\* the caller is not the owner of the map and holds no grant or a Read grant
LacksWrite(caller, map_id) ==
    /\ caller # Owner(map_id)
    /\ access_control[AcKey(caller, map_id)] \in {None, Read}

\* C19: insert_encrypted_value, remove_encrypted_value and remove_map_values
\* by a caller with no grant or a Read grant are refused as unauthorized and
\* leave every stored value as it was, while the caller with the Read grant
\* still gets the values.
C19_WriteNeedsWriteAccess ==
    \A c \in Principals, k \in KeyIds :
        LacksWrite(c, k) =>
            /\ remove_map_values(c, k).res \in UnauthorizedErrors
            /\ remove_map_values(c, k).vals = mapkey_vals
            /\ \A mk \in MapKeys :
                  /\ remove_encrypted_value(c, k, mk).res \in UnauthorizedErrors
                  /\ remove_encrypted_value(c, k, mk).vals = mapkey_vals
                  /\ \A v \in Values :
                        /\ insert_encrypted_value(c, k, mk, v).res \in UnauthorizedErrors
                        /\ insert_encrypted_value(c, k, mk, v).vals = mapkey_vals
                  /\ access_control[AcKey(c, k)] = Read =>
                        get_encrypted_value(c, k, mk) = Ok(mapkey_vals[<<k, mk>>])

\* C19 witness: a map holds a value, one caller holds Read on it and another
\* holds nothing; both are refused the overwrite and the reader gets the value.
C19_Witness ==
    \E c \in Principals, d \in Principals, k \in KeyIds, mk \in MapKeys :
        /\ c # Owner(k) /\ d # Owner(k)
        /\ access_control[AcKey(c, k)] = Read
        /\ access_control[AcKey(d, k)] = None
        /\ mapkey_vals[<<k, mk>>] = "v1"
        /\ insert_encrypted_value(c, k, mk, "v2").res.tag = "Err"
        /\ insert_encrypted_value(d, k, mk, "v2").res.tag = "Err"
        /\ get_encrypted_value(c, k, mk) = Ok("v1")

\* the caller is the owner of the map or holds a grant of any level on it
HasReadCapability(caller, map_id) ==
    caller = Owner(map_id) \/ access_control[AcKey(caller, map_id)] \in AccessRights

\* every caller with read capability gets what the store holds
ReadersGetStored ==
    \A c \in Principals, k \in KeyIds, mk \in MapKeys :
        HasReadCapability(c, k) => get_encrypted_value(c, k, mk) = Ok(mapkey_vals[<<k, mk>>])

\* in the state a successful insert_encrypted_value of v leaves, every caller
\* with read capability gets v
PutThenGet ==
    \A c \in Principals, k \in KeyIds, mk \in MapKeys, v \in Values :
        LET put == insert_encrypted_value(c, k, mk, v) IN
        (put.res.tag = "Ok" /\ mapkey_vals' = put.vals /\ access_control' = access_control) =>
            \A c2 \in Principals :
                HasReadCapability(c2, k) => get_encrypted_value(c2, k, mk)' = Ok(v)

\* a stored value changes only by a successful write to its key or map
StoreChangesOnlyByWrite ==
    \A k \in KeyIds, mk \in MapKeys :
        mapkey_vals'[<<k, mk>>] # mapkey_vals[<<k, mk>>] =>
            \E c \in Principals :
                \/ /\ remove_map_values(c, k).res.tag = "Ok"
                   /\ mapkey_vals' = remove_map_values(c, k).vals
                \/ /\ remove_encrypted_value(c, k, mk).res.tag = "Ok"
                   /\ mapkey_vals' = remove_encrypted_value(c, k, mk).vals
                \/ \E v \in Values :
                      /\ insert_encrypted_value(c, k, mk, v).res.tag = "Ok"
                      /\ mapkey_vals' = insert_encrypted_value(c, k, mk, v).vals

\* C20: after a successful insert_encrypted_value of v at (map_id, key),
\* get_encrypted_value returns v to the owner and to every grantee of any
\* level, until the next successful insert or removal on that key.
C20_PutGetRoundTrip ==
    []ReadersGetStored /\ [][PutThenGet /\ StoreChangesOnlyByWrite]_vars

\* C20 witness: a value is stored while a Read grantee and a ReadWrite grantee
\* hold the map; both and the owner get it.
C20_Witness ==
    \E c \in Principals, d \in Principals, k \in KeyIds, mk \in MapKeys :
        /\ c # Owner(k) /\ d # Owner(k)
        /\ access_control[AcKey(c, k)] = Read
        /\ access_control[AcKey(d, k)] = ReadWrite
        /\ mapkey_vals[<<k, mk>>] = "v2"
        /\ \A u \in {c, d, Owner(k)} : get_encrypted_value(u, k, mk) = Ok("v2")

\* the caller is the owner of the map or holds ReadWrite or ReadWriteManage on it
HasWriteCapability(caller, map_id) ==
    caller = Owner(map_id)
        \/ access_control[AcKey(caller, map_id)] \in {ReadWrite, ReadWriteManage}

\* the (map key, value) pairs stored under map_id
PairsOf(map_id) ==
    {<<mk, mapkey_vals[<<map_id, mk>>]>> :
        mk \in {x \in AllMapKeys : mapkey_vals[<<map_id, x>>] # None}}

\* remove_map_values by a writer succeeds, returns one value for each key of
\* the map and leaves the map empty and every other map as it was
RemoveMapReturnsAll ==
    \A c \in Principals, k \in KeyIds :
        HasWriteCapability(c, k) =>
            LET rm == remove_map_values(c, k) IN
            /\ rm.res = Ok(PairsOf(k))
            /\ \A e \in DOMAIN mapkey_vals :
                  rm.vals[e] = IF e[1] = k THEN None ELSE mapkey_vals[e]
            /\ PairsOf(k) = {} => (rm.res = Ok({}) /\ rm.vals = mapkey_vals)

\* in the state a successful remove_map_values leaves, the map has no pair
\* for any reader
RemoveMapThenGetAll ==
    mapkey_vals' # mapkey_vals =>
        \A k \in KeyIds :
            (\E c \in Principals :
                /\ remove_map_values(c, k).res.tag = "Ok"
                /\ mapkey_vals' = remove_map_values(c, k).vals) =>
                \A c2 \in Principals :
                    HasReadCapability(c2, k)' =>
                        get_encrypted_values_for_map(c2, k)' = Ok(<< >>)

\* C21: remove_map_values by a caller with write capability removes every
\* entry of the map and returns exactly the values that were stored, one for
\* each key; get_encrypted_values_for_map is empty afterwards; on a map with
\* no entries it returns the empty list, never an error.
C21_RemoveMapReturnsAll == []RemoveMapReturnsAll /\ [][RemoveMapThenGetAll]_vars

\* C21 witness: a ReadWrite grantee removes a map that holds two values and
\* gets both, and removes a map never written and gets the empty list.
C21_Witness ==
    \E c \in Principals, k \in KeyIds :
        /\ c # Owner(k)
        /\ access_control[AcKey(c, k)] = ReadWrite
        /\ Cardinality(PairsOf(k)) = 2
        /\ Cardinality(remove_map_values(c, k).res.val) = 2
        /\ remove_map_values(c, <<c, 0>>).res = Ok({})

\* C22: insert_encrypted_value by a caller with write capability returns None
\* when the key held no value and the value stored before otherwise, and
\* stores the new value in its place.
C22_PutReturnsPrevious ==
    \A c \in Principals, k \in KeyIds, mk \in MapKeys, v \in Values :
        HasWriteCapability(c, k) =>
            LET put == insert_encrypted_value(c, k, mk, v) IN
            /\ put.res = Ok(mapkey_vals[<<k, mk>>])
            /\ put.vals = [mapkey_vals EXCEPT ![<<k, mk>>] = v]

\* C22 witness: a ReadWrite grantee overwrites "v1" with "v2" and gets "v1",
\* and writes to a key of its own map that holds nothing and gets None.
C22_Witness ==
    \E c \in Principals, k \in KeyIds, mk \in MapKeys :
        /\ c # Owner(k)
        /\ access_control[AcKey(c, k)] = ReadWrite
        /\ mapkey_vals[<<k, mk>>] = "v1"
        /\ insert_encrypted_value(c, k, mk, "v2").res = Ok("v1")
        /\ insert_encrypted_value(c, k, mk, "v2").vals[<<k, mk>>] = "v2"
        /\ insert_encrypted_value(c, <<c, 0>>, mk, "v2").res = Ok(None)

\* C23: remove_encrypted_value by a caller with write capability returns the
\* value stored under the key, None if there is none, and deletes that entry
\* only: the other keys of the map keep their values.
C23_RemoveOneReturnsValue ==
    \A c \in Principals, k \in KeyIds, mk \in AllMapKeys :
        HasWriteCapability(c, k) =>
            LET rm == remove_encrypted_value(c, k, mk) IN
            /\ rm.res = Ok(mapkey_vals[<<k, mk>>])
            /\ rm.vals = [mapkey_vals EXCEPT ![<<k, mk>>] = None]

\* C23 witness: a map holds two keys; a ReadWriteManage grantee removes one
\* and gets its value, the other key stays, and removing a key of an empty
\* map returns None.
C23_Witness ==
    \E c \in Principals, k \in KeyIds :
        /\ c # Owner(k)
        /\ access_control[AcKey(c, k)] = ReadWriteManage
        /\ mapkey_vals[<<k, "k1">>] = "v1" /\ mapkey_vals[<<k, "k2">>] = "v2"
        /\ remove_encrypted_value(c, k, "k1").res = Ok("v1")
        /\ remove_encrypted_value(c, k, "k1").vals[<<k, "k1">>] = None
        /\ remove_encrypted_value(c, k, "k1").vals[<<k, "k2">>] = "v2"
        /\ remove_encrypted_value(c, <<c, 0>>, "k1").res = Ok(None)

\* the place of a map key in the order of the store
KeyRank(mk) == CHOOSE i \in DOMAIN MapKeysInOrder : MapKeysInOrder[i] = mk

\* C24: get_encrypted_values_for_map by a caller with read capability returns
\* exactly the (map key, value) pairs stored under the map, each once, none
\* of another map, in ascending order of the map key.
C24_GetAllReturnsPairs ==
    \A c \in Principals, k \in KeyIds :
        HasReadCapability(c, k) =>
            LET r == get_encrypted_values_for_map(c, k) IN
            /\ r.tag = "Ok"
            /\ {r.val[i] : i \in 1 .. Len(r.val)} = PairsOf(k)
            /\ Len(r.val) = Cardinality(PairsOf(k))
            /\ \A i \in 1 .. Len(r.val), j \in 1 .. Len(r.val) :
                  i < j => KeyRank(r.val[i][1]) < KeyRank(r.val[j][1])

\* C24 witness: a Read grantee lists a map that holds both keys and gets the
\* two pairs in key order.
C24_Witness ==
    \E c \in Principals, k \in KeyIds :
        /\ c # Owner(k)
        /\ access_control[AcKey(c, k)] = Read
        /\ mapkey_vals[<<k, "k1">>] = "v2" /\ mapkey_vals[<<k, "k2">>] = "v1"
        /\ get_encrypted_values_for_map(c, k) = Ok(<< <<"k1", "v2">>, <<"k2", "v1">> >>)

\* the names of the maps of caller that hold an entry
NonEmptyMapNames(caller) ==
    {e[1][2] : e \in {x \in StoredValues : x[1][1] = caller}}

ReadGranteeGetsButCannotPut ==
    \A g \in Principals, k \in KeyIds, mk \in MapKeys, v \in Values :
        (g # Owner(k) /\ access_control[AcKey(g, k)] = Read) =>
            /\ get_encrypted_value(g, k, mk) = Ok(mapkey_vals[<<k, mk>>])
            /\ insert_encrypted_value(g, k, mk, v).res \in UnauthorizedErrors
            /\ insert_encrypted_value(g, k, mk, v).vals = mapkey_vals

\* on the step that raises a grantee from Read to ReadWrite, its put in the
\* state the step leaves succeeds, returns the value the key held and stores
\* the new one
UpgradeGovernsNextPut ==
    \A g \in Principals, k \in KeyIds, mk \in MapKeys, v \in Values :
        (/\ g # Owner(k)
         /\ access_control[AcKey(g, k)] = Read
         /\ access_control'[AcKey(g, k)] = ReadWrite) =>
            /\ insert_encrypted_value(g, k, mk, v)'.res = Ok(mapkey_vals[<<k, mk>>])
            /\ insert_encrypted_value(g, k, mk, v)'.vals[<<k, mk>>] = v

\* C26: a change of rights governs the grantee's very next operation: while G
\* holds Read on the map its get of k1 returns the stored value and its put
\* fails as unauthorized; right after the upgrade to ReadWrite its put
\* succeeds and returns the previous value.
C26_RightsChangeGovernsNext ==
    []ReadGranteeGetsButCannotPut /\ [][UpgradeGovernsNextPut]_vars

\* C26 witness: the owner stored "v1" under a key, G holds ReadWrite after
\* the upgrade; G reads "v1" and its put of "v2" returns "v1", and a Read
\* grantee of the same map is still refused.
C26_Witness ==
    \E g \in Principals, h \in Principals, k \in KeyIds, mk \in MapKeys :
        /\ g # Owner(k) /\ h # Owner(k) /\ g # h
        /\ access_control[AcKey(g, k)] = ReadWrite
        /\ access_control[AcKey(h, k)] = Read
        /\ mapkey_vals[<<k, mk>>] = "v1"
        /\ get_encrypted_value(g, k, mk) = Ok("v1")
        /\ insert_encrypted_value(g, k, mk, "v2").res = Ok("v1")
        /\ insert_encrypted_value(h, k, mk, "v2").res \in UnauthorizedErrors

\* the capabilities of a level
Capabilities(r) ==
    {c \in {"read", "write", "get_user_rights", "set_user_rights"} :
        \/ c = "read" /\ can_read(r)
        \/ c = "write" /\ can_write(r)
        \/ c = "get_user_rights" /\ can_get_user_rights(r)
        \/ c = "set_user_rights" /\ can_set_user_rights(r)}

\* the order of the levels is total and strict: Read < ReadWrite < ReadWriteManage
LevelsTotallyOrdered ==
    /\ \A a, b \in AccessRights : AccessRightsLeq(a, b) \/ AccessRightsLeq(b, a)
    /\ \A a, b \in AccessRights : (AccessRightsLeq(a, b) /\ AccessRightsLeq(b, a)) => a = b
    /\ AccessRightsLeq(Read, ReadWrite) /\ AccessRightsLeq(ReadWrite, ReadWriteManage)

\* the checks of the rights table follow the order: what is allowed to a
\* grantee on a key id is allowed to every grantee of a level at least as high
ChecksMonotone ==
    \A k \in KeyIds, u \in Principals, w \in Principals :
        LET ru == access_control[AcKey(u, k)]
            rw == access_control[AcKey(w, k)]
        IN  (/\ u # Owner(k) /\ w # Owner(k)
             /\ ru # None /\ rw # None
             /\ AccessRightsLeq(ru, rw)) =>
                /\ ensure_user_can_read(u, k).tag = "Ok" => ensure_user_can_read(w, k).tag = "Ok"
                /\ ensure_user_can_write(u, k).tag = "Ok" => ensure_user_can_write(w, k).tag = "Ok"
                /\ ensure_user_can_get_user_rights(u, k).tag = "Ok"
                        => ensure_user_can_get_user_rights(w, k).tag = "Ok"
                /\ ensure_user_can_set_user_rights(u, k).tag = "Ok"
                        => ensure_user_can_set_user_rights(w, k).tag = "Ok"

\* C27: the levels are totally ordered Read < ReadWrite < ReadWriteManage;
\* a capability held at a level is held at every higher level; each level
\* holds a capability the level below lacks (Read holds one at all); the
\* owner level is the maximum; the checks of the table follow the order.
C27_LevelsMonotone ==
    /\ LevelsTotallyOrdered
    /\ \A a, b \in AccessRights :
            AccessRightsLeq(a, b) => Capabilities(a) \subseteq Capabilities(b)
    /\ Capabilities(Read) # {}
    /\ \A a, b \in AccessRights :
            AccessRightsRepr(b) = AccessRightsRepr(a) + 1
                => Capabilities(b) \ Capabilities(a) # {}
    /\ \A a \in AccessRights : AccessRightsLeq(a, owner_rights)
    /\ owner_rights = ReadWriteManage
    /\ ChecksMonotone

\* C27 witness: one key id has a Read and a ReadWrite grantee; the Read
\* grantee passes the read check only, the ReadWrite grantee the write check
\* but not the check to set rights, the owner passes it at owner_rights.
C27_Witness ==
    \E k \in KeyIds, u \in Principals, w \in Principals :
        /\ u # Owner(k) /\ w # Owner(k)
        /\ access_control[AcKey(u, k)] = Read
        /\ access_control[AcKey(w, k)] = ReadWrite
        /\ ensure_user_can_read(u, k).tag = "Ok"
        /\ ensure_user_can_write(u, k).tag = "Err"
        /\ ensure_user_can_write(w, k).tag = "Ok"
        /\ ensure_user_can_set_user_rights(w, k).tag = "Err"
        /\ ensure_user_can_set_user_rights(Owner(k), k) = Ok(owner_rights)

\* every request of the backend KeyManager, built now or issued before,
\* carries the content of the cell as its context
BackendContextIsSeparator ==
    /\ get_vetkey_verification_key.context = domain_separator
    /\ \A c \in Principals, k \in KeyIds, tk \in TransportKeys :
            LET out == get_encrypted_vetkey(c, k, tk) IN
            out.request # NoRequest => out.request.context = domain_separator
    /\ \A s \in CallSlots :
            calls[s].status # "idle" => calls[s].request.context = domain_separator

\* every request of the cdk KeyManager carries the constant derivation path
CdkContextIsPath ==
    /\ cdk_get_vetkey_verification_key.derivation_path = <<KEY_MANAGER_DERIVATION_PATH>>
    /\ \A c \in Principals, k \in KeyIds, tk \in TransportKeys :
            LET out == cdk_get_encrypted_vetkey(c, k, tk) IN
            out.request # NoRequest =>
                out.request.public_key_derivation_path = <<KEY_MANAGER_DERIVATION_PATH>>

\* C28: the domain separator is fixed at initialization: no step changes it,
\* and every request to the vetKD system API, for a derived key and for the
\* public key, carries exactly it as its context (the cdk KeyManager: its
\* constant derivation path).
C28_SeparatorFixed ==
    /\ [](BackendContextIsSeparator /\ CdkContextIsPath)
    /\ [][domain_separator' = domain_separator]_vars

\* C28 witness: the broker was set up with "ds2"; a derive request and then
\* its reply have passed, the request on record carries "ds2", and a cdk
\* grantee's request carries the library's path.
C28_Witness ==
    /\ domain_separator = "ds2"
    /\ \E s \in CallSlots :
            /\ calls[s].status = "done"
            /\ calls[s].request.method = "vetkd_derive_key"
            /\ calls[s].request.context = "ds2"
    /\ \E c \in Principals, k \in KeyIds, tk \in TransportKeys :
            /\ c # Owner(k)
            /\ cdk_get_encrypted_vetkey(c, k, tk).request # NoRequest

\* a grantee that is not the owner and holds ReadWriteManage on the key id
IsManager(m, key_id) ==
    m # Owner(key_id) /\ access_control[AcKey(m, key_id)] = ReadWriteManage

\* C29: a non-owner grantee holding ReadWriteManage can demote or revoke any
\* grantee of the key id, another ReadWriteManage grantee and itself
\* included: its set_user_rights and remove_user succeed, return the rights
\* the user held and take effect. Of the calls that pass the check to set
\* rights, only those with caller = user = owner are rejected.
C29_ManagersRevokeFreely ==
    \A k \in KeyIds, c \in Principals, u \in Principals :
        /\ IsManager(c, k) =>
              /\ \A r \in AccessRights :
                    LET set == set_user_rights(c, k, u, r) IN
                    /\ set.res = Ok(access_control[AcKey(u, k)])
                    /\ set.ac[AcKey(u, k)] = r
              /\ LET rem == remove_user(c, k, u) IN
                 /\ rem.res = Ok(access_control[AcKey(u, k)])
                 /\ rem.ac[AcKey(u, k)] = None
                 /\ SkKey(k, u) \notin rem.sk
        /\ ensure_user_can_set_user_rights(c, k).tag = "Ok" =>
              /\ remove_user(c, k, u).res.tag = "Err" <=> (c = u /\ c = Owner(k))
              /\ \A r \in AccessRights :
                    set_user_rights(c, k, u, r).res.tag = "Err" <=> (c = u /\ c = Owner(k))

\* C29 witness: a key id has two ReadWriteManage grantees; one revokes the
\* other, revokes itself and demotes the other to Read, each call returning
\* ReadWriteManage.
C29_Witness ==
    \E k \in KeyIds, m \in Principals, n \in Principals :
        /\ m # n
        /\ IsManager(m, k) /\ IsManager(n, k)
        /\ remove_user(m, k, n).res = Ok(ReadWriteManage)
        /\ remove_user(m, k, n).ac[AcKey(n, k)] = None
        /\ remove_user(m, k, m).res = Ok(ReadWriteManage)
        /\ remove_user(m, k, m).ac[AcKey(m, k)] = None
        /\ set_user_rights(m, k, n, Read).res = Ok(ReadWriteManage)
        /\ set_user_rights(m, k, n, Read).ac[AcKey(n, k)] = Read

\* every synchronous operation of g on key_id is denied and changes nothing,
\* and a derivation g starts is refused before any request is built
Denied(g, key_id) ==
    /\ ensure_user_can_read(g, key_id).tag = "Err"
    /\ ensure_user_can_write(g, key_id).tag = "Err"
    /\ ensure_user_can_get_user_rights(g, key_id).tag = "Err"
    /\ ensure_user_can_set_user_rights(g, key_id).tag = "Err"
    /\ \A mk \in MapKeys :
          /\ get_encrypted_value(g, key_id, mk).tag = "Err"
          /\ remove_encrypted_value(g, key_id, mk).res.tag = "Err"
          /\ remove_encrypted_value(g, key_id, mk).vals = mapkey_vals
          /\ \A v \in Values :
                /\ insert_encrypted_value(g, key_id, mk, v).res.tag = "Err"
                /\ insert_encrypted_value(g, key_id, mk, v).vals = mapkey_vals
    /\ get_encrypted_values_for_map(g, key_id).tag = "Err"
    /\ remove_map_values(g, key_id).res.tag = "Err"
    /\ remove_map_values(g, key_id).vals = mapkey_vals
    /\ get_shared_user_access_for_key(g, key_id).tag = "Err"
    /\ \A u \in Principals :
          /\ get_user_rights(g, key_id, u).tag = "Err"
          /\ remove_user(g, key_id, u).res.tag = "Err"
          /\ \A r \in AccessRights : set_user_rights(g, key_id, u, r).res.tag = "Err"
    /\ \A tk \in TransportKeys :
          /\ get_encrypted_vetkey(g, key_id, tk).res.tag = "Err"
          /\ get_encrypted_vetkey(g, key_id, tk).request = NoRequest

\* a principal that is not the owner and has no entry is denied
NoEntryDenied ==
    \A g \in Principals, k \in KeyIds : NoEntry(g, k) => Denied(g, k)

\* a step that is a successful remove_user of the grantee g on key_id leaves
\* g denied
RevocationDenies ==
    \A c \in Principals, g \in Principals, k \in KeyIds :
        LET rem == remove_user(c, k, g) IN
        (/\ HasEntry(g, k)
         /\ <<access_control, shared_keys>>' # <<access_control, shared_keys>>
         /\ rem.res.tag = "Ok"
         /\ access_control' = rem.ac
         /\ shared_keys' = rem.sk) => Denied(g, k)'

\* an entry for g appears only by a successful set_user_rights that names g
EntryOnlyBySetRights ==
    \A g \in Principals, k \in KeyIds :
        (NoEntry(g, k) /\ ~NoEntry(g, k)') =>
            \E c \in Principals, r \in AccessRights :
                /\ set_user_rights(c, k, g, r).res.tag = "Ok"
                /\ access_control' = set_user_rights(c, k, g, r).ac

\* C30: revocation is effective for all later synchronous operations: after
\* a successful remove_user of a non-owner g on a key id, every ensure check,
\* put, get, remove, listing of grantees and newly started derivation by g on
\* it is denied, until a successful set_user_rights names g on it again.
C30_RevocationEffective ==
    /\ []NoEntryDenied
    /\ [][RevocationDenies /\ EntryOnlyBySetRights]_vars

\* C30 witness: g started a derivation for a key id it could read, the call
\* is still on record with g as its caller, and g has been revoked since:
\* g has no entry and everything g may try on the key id is denied.
C30_Witness ==
    \E g \in Principals, k \in KeyIds, s \in CallSlots :
        /\ calls[s].status # "idle"
        /\ calls[s].request.method = "vetkd_derive_key"
        /\ calls[s].caller = g /\ calls[s].key_id = k
        /\ NoEntry(g, k)
        /\ Denied(g, k)

\* every user the scan of shared_keys finds under key_id resolves to a level
\* through ensure_user_can_read, the owner included
ListedGranteesResolve ==
    \A k \in KeyIds, u \in Principals :
        SkKey(k, u) \in shared_keys =>
            /\ ensure_user_can_read(u, k).tag = "Ok"
            /\ ensure_user_can_read(u, k).val \in AccessRights
            /\ \A c \in Principals :
                  ensure_user_can_get_user_rights(c, k).tag = "Ok" =>
                      /\ get_user_rights(c, k, u).tag = "Ok"
                      /\ get_user_rights(c, k, u).val # None

\* get_shared_user_access_for_key never panics: it is refused, or it lists
\* every user of shared_keys under key_id with a level
GranteesOfNeverAborts ==
    \A c \in Principals, k \in KeyIds :
        LET r == get_shared_user_access_for_key(c, k) IN
        /\ r.tag # "Panic"
        /\ ensure_user_can_get_user_rights(c, k).tag = "Ok" =>
              /\ r.tag = "Ok"
              /\ Len(r.val) = Cardinality({u \in Principals : SkKey(k, u) \in shared_keys})
              /\ \A i \in 1 .. Len(r.val) :
                    /\ SkKey(k, r.val[i][1]) \in shared_keys
                    /\ r.val[i][2] \in AccessRights

\* the cdk get_shared_user_access_for_key never reaches its expect on
\* "always some access rights"
CdkGranteesOfNeverAborts ==
    \A c \in Principals, k \in KeyIds :
        /\ cdk_get_shared_user_access_for_key(c, k) # Panic("always some access rights")
        /\ KEY_MANAGER.is_some =>
              \A u \in Principals :
                  SkKey(k, u) \in KEY_MANAGER.shared_keys =>
                      cdk_ensure_user_can_read(u, k).tag = "Ok"

\* C31: get_shared_user_access_for_key never aborts on "always some access
\* rights": in every reachable state each user found in shared_keys under the
\* key id resolves to a level through ensure_user_can_read.
C31_GranteesOfNeverAborts == ListedGranteesResolve /\ GranteesOfNeverAborts

\* C31 witness: a key id is shared with a Read and a ReadWrite grantee; the
\* owner's call lists both with their levels.
C31_Witness ==
    \E k \in KeyIds, u \in Principals, w \in Principals :
        /\ u # Owner(k) /\ w # Owner(k) /\ u < w
        /\ access_control[AcKey(u, k)] = Read
        /\ access_control[AcKey(w, k)] = ReadWrite
        /\ {SkKey(k, u), SkKey(k, w)} \subseteq shared_keys
        /\ get_shared_user_access_for_key(Owner(k), k) = Ok(<<<<u, Read>>, <<w, ReadWrite>>>>)

\* the entries of every pair other than (key_id, g) stay as they are, and so
\* does what the four checks answer for it
OthersUnchanged(key_id, g) ==
    \A k2 \in AllKeyIds, g2 \in Principals :
        <<k2, g2>> # <<key_id, g>> =>
            /\ access_control'[AcKey(g2, k2)] = access_control[AcKey(g2, k2)]
            /\ (SkKey(k2, g2) \in shared_keys') <=> (SkKey(k2, g2) \in shared_keys)
            /\ ensure_user_can_read(g2, k2)' = ensure_user_can_read(g2, k2)
            /\ ensure_user_can_write(g2, k2)' = ensure_user_can_write(g2, k2)
            /\ ensure_user_can_get_user_rights(g2, k2)' = ensure_user_can_get_user_rights(g2, k2)
            /\ ensure_user_can_set_user_rights(g2, k2)' = ensure_user_can_set_user_rights(g2, k2)

\* a step that is a successful set_user_rights or remove_user for (key_id, g)
\* leaves every other pair alone (a step that changes neither map leaves all
\* pairs alone)
GrantsIsolated ==
    <<access_control, shared_keys>>' # <<access_control, shared_keys>> =>
    \A c \in Principals, k \in AllKeyIds, g \in Principals :
        /\ \A r \in AccessRights :
              LET set == set_user_rights(c, k, g, r) IN
              (/\ access_control'[AcKey(g, k)] = r
               /\ SkKey(k, g) \in shared_keys'
               /\ set.res.tag = "Ok"
               /\ access_control' = set.ac
               /\ shared_keys' = set.sk) => OthersUnchanged(k, g)
        /\ LET rem == remove_user(c, k, g) IN
           (/\ access_control'[AcKey(g, k)] = None
            /\ SkKey(k, g) \notin shared_keys'
            /\ rem.res.tag = "Ok"
            /\ access_control' = rem.ac
            /\ shared_keys' = rem.sk) => OthersUnchanged(k, g)

\* the pairs (key_id, g) whose entry of access_control or of shared_keys a
\* step changes
ChangedPairs ==
    {p \in AllKeyIds \X Principals :
        \/ access_control'[AcKey(p[2], p[1])] # access_control[AcKey(p[2], p[1])]
        \/ (SkKey(p[1], p[2]) \in shared_keys') # (SkKey(p[1], p[2]) \in shared_keys)}

\* the cdk KeyManager: a step changes the entries of at most one pair
CdkGrantsIsolated ==
    (KEY_MANAGER.is_some /\ KEY_MANAGER'.is_some) =>
        Cardinality({p \in KeyIds \X Principals :
            \/ KEY_MANAGER'.access_control[AcKey(p[2], p[1])]
                    # KEY_MANAGER.access_control[AcKey(p[2], p[1])]
            \/ (SkKey(p[1], p[2]) \in KEY_MANAGER'.shared_keys)
                    # (SkKey(p[1], p[2]) \in KEY_MANAGER.shared_keys)}) <= 1
CdkGrantsIsolatedAlways == [][CdkGrantsIsolated]_vars

\* C32: grants are isolated per (key id, grantee): a successful
\* set_user_rights or remove_user for (K, G) leaves the access_control and
\* shared_keys entries of every other pair unchanged, and with them the
\* answer of every check for another grantee of K and for any principal on
\* another key id, another key id of the same owner included; no step
\* changes more than one pair.
C32_GrantsIsolated == [][GrantsIsolated /\ Cardinality(ChangedPairs) <= 1]_vars

\* C32 witness: G holds Read on one key id of an owner and ReadWrite on the
\* owner's other key id; raising G on the first and revoking G on the first
\* both leave the entry of the second as it is.
C32_Witness ==
    \E o \in Principals, g \in Principals :
        /\ g # o
        /\ access_control[AcKey(g, <<o, 0>>)] = Read
        /\ access_control[AcKey(g, <<o, 1>>)] = ReadWrite
        /\ set_user_rights(o, <<o, 0>>, g, ReadWriteManage).res = Ok(Read)
        /\ set_user_rights(o, <<o, 0>>, g, ReadWriteManage).ac[AcKey(g, <<o, 1>>)] = ReadWrite
        /\ remove_user(o, <<o, 0>>, g).res = Ok(Read)
        /\ remove_user(o, <<o, 0>>, g).ac[AcKey(g, <<o, 1>>)] = ReadWrite
        /\ SkKey(<<o, 1>>, g) \in remove_user(o, <<o, 0>>, g).sk
====
